---- MODULE Spec2Model ----
(***************************************************************************)
(* Model of the heat pump calculator component (HeatPumpCalculator.tsx,    *)
(* v1.13): the calculate handler with its calibration pass, its per-hour   *)
(* main loop and the React state it writes (loading, error, result).       *)
(*                                                                         *)
(* JavaScript numbers are modelled as exact rationals <<n, d>> in lowest   *)
(* terms (d > 0); a division by zero yields <<1,0>>, <<-1,0>> or <<0,0>>   *)
(* (Infinity, -Infinity, NaN).  The temperatures of the input sets are     *)
(* chosen so that the absolute temperatures are whole kelvins, which keeps *)
(* every intermediate value inside TLC's integer range.                    *)
(***************************************************************************)
EXTENDS Integers, Sequences, FiniteSets, TLC

\* Longest hourly series the weather archive answers with.
MaxLen == 3

----------------------------------------------------------------------------
(* JavaScript number arithmetic *)

Abs(x) == IF x < 0 THEN -x ELSE x

Sign(x) == IF x > 0 THEN 1 ELSE IF x < 0 THEN -1 ELSE 0

RECURSIVE GCD(_, _)
GCD(a, b) == IF b = 0 THEN a ELSE GCD(b, a % b)

\* The number n/d in lowest terms.
Num(n, d) ==
    IF d = 0 THEN <<Sign(n), 0>>
    ELSE LET g == GCD(Abs(n), Abs(d))
         IN  <<(Sign(d) * n) \div g, Abs(d) \div g>>

Whole(n) == <<n, 1>>

\* A decimal literal given in thousandths: Milli(273150) is 273.15.
Milli(n) == Num(n, 1000)

IsFinite(a) == a[2] # 0

RAdd(a, b) ==
    IF a[2] = 1 /\ b[2] = 1 THEN <<a[1] + b[1], 1>>
    ELSE IF a[2] = 0 \/ b[2] = 0 THEN Num(a[1] * b[2] + b[1] * a[2], 0)
    ELSE LET g == GCD(a[2], b[2])
             l == (a[2] \div g) * b[2]
         IN  Num(a[1] * (l \div a[2]) + b[1] * (l \div b[2]), l)

RNeg(a) == <<-a[1], a[2]>>

RSub(a, b) == RAdd(a, RNeg(b))

RMul(a, b) ==
    LET g1 == GCD(Abs(a[1]), b[2])
        g2 == GCD(Abs(b[1]), a[2])
    IN  IF g1 = 0 \/ g2 = 0 THEN Num(a[1] * b[1], a[2] * b[2])
        ELSE Num((a[1] \div g1) * (b[1] \div g2), (a[2] \div g2) * (b[2] \div g1))

RDiv(a, b) == RMul(a, Num(b[2], b[1]))

RAbs(a) == <<Abs(a[1]), a[2]>>

NaN == <<0, 0>>

\* a - b has the sign of Cmp(a, b); the cross products are taken over the
\* least common denominator.
Cmp(a, b) ==
    IF a[2] = b[2] THEN a[1] - b[1]
    ELSE IF a[2] = 0 \/ b[2] = 0 THEN a[1] * b[2] - b[1] * a[2]
    ELSE LET g == GCD(a[2], b[2])
         IN  a[1] * (b[2] \div g) - b[1] * (a[2] \div g)

\* Comparisons are false as soon as one side is NaN.
RLt(a, b) == a # NaN /\ b # NaN /\ Cmp(a, b) < 0

RLe(a, b) == a # NaN /\ b # NaN /\ Cmp(a, b) <= 0

RGt(a, b) == RLt(b, a)

RGe(a, b) == RLe(b, a)

Zero == Whole(0)

----------------------------------------------------------------------------
(* Input data: the weather archive's answer and the form fields *)

\* A null entry of temperature_2m.
Null == <<>>

\* Outdoor temperatures in degrees Celsius: 270 K, 290 K, 300 K and 310 K.
Cold == Milli(-3150)

Mild == Milli(16850)

Warm == Milli(26850)

Hot == Milli(36850)

Temps == {Null, Cold, Mild, Warm, Hot}

\* hourly.time[k]: the series is hourly and starts on 30 April at 22:00,
\* so that it crosses the end of the default heating period (30.4.).
TimeAt(k) ==
    LET h  == 22 + (k - 1)
        dd == 30 + (h \div 24)
    IN  IF dd <= 30
        THEN [y |-> 2023, m |-> 4, d |-> dd, sep |-> "T", h |-> h % 24]
        ELSE [y |-> 2023, m |-> 5, d |-> dd - 30, sep |-> "T", h |-> h % 24]

\* The bodies the archive can answer with: n hourly samples, n = 0 .. MaxLen.
Responses ==
    UNION {[time : {[k \in 1..n |-> TimeAt(k)]},
            temperature_2m : [1..n -> Temps]] : n \in 0..MaxLen}

\* Heating curve fields (curveMode, paramA, paramB, p1Out, p1Flow, p2Out, p2Flow).
CurveConfigs ==
    [curveMode : {"params"}, paramA : {Whole(1)}, paramB : {Milli(33700)},
     p1Out : {Mild}, p1Flow : {Warm}, p2Out : {Cold}, p2Flow : {Milli(46850)}]
    \cup
    [curveMode : {"points"}, paramA : {Whole(1)}, paramB : {Milli(33700)},
     p1Out : {Mild}, p1Flow : {Warm},
     p2Out : {Cold, Mild, RAdd(Mild, Num(1, 2000))},
     p2Flow : {Milli(46850)}]

\* Heating load fields (calcMode, area, uVal, fuelType, fuelAmount, oldEff).
LoadConfigs ==
    [calcMode : {"physics"}, area : {Whole(100), Whole(-100)}, uVal : {Num(1, 2)},
     fuelType : {"gas"}, fuelAmount : {Whole(1)}, oldEff : {Num(9, 10)}]
    \cup
    [calcMode : {"consumption"}, area : {Whole(100)}, uVal : {Num(1, 2)},
     fuelType : {"gas", "oil"}, fuelAmount : {Whole(1)}, oldEff : {Num(9, 10)}]

\* Heating period fields: 1.10.-30.4. (the default), 1.5.-30.9. and
\* 1.1.-31.12.  The days are numbers typed into an input, the months come
\* from a select and are integers.
PeriodConfigs ==
    {[heatStartD |-> Whole(1), heatStartM |-> 10, heatEndD |-> Whole(30), heatEndM |-> 4],
     [heatStartD |-> Whole(1), heatStartM |-> 5,  heatEndD |-> Whole(30), heatEndM |-> 9],
     [heatStartD |-> Whole(1), heatStartM |-> 1,  heatEndD |-> Whole(31), heatEndM |-> 12]}

\* The default months with both day inputs emptied: parseInt('') is NaN.
EmptiedPeriod ==
    [heatStartD |-> NaN, heatStartM |-> 10, heatEndD |-> NaN, heatEndM |-> 4]

BaseConfigs == [eff : {Num(1, 2), Num(1, 10)}, tempInnen : {Warm}]

\* f extended by the fields of g.
Merge(f, g) ==
    [x \in DOMAIN f \cup DOMAIN g |-> IF x \in DOMAIN f THEN f[x] ELSE g[x]]

\* The forms calculate is called on: every combination of the fields above,
\* and the forms with the parametric curve and the emptied period.
Configs ==
    {Merge(Merge(b, c), Merge(l, p)) :
        b \in BaseConfigs, c \in CurveConfigs, l \in LoadConfigs, p \in PeriodConfigs}
    \cup
    {Merge(Merge(b, c), Merge(l, EmptiedPeriod)) :
        b \in BaseConfigs,
        c \in {x \in CurveConfigs : x.curveMode = "params"},
        l \in LoadConfigs}

\* Values of the two date inputs ("yyyy-MM-dd").
DateInputs == {[y |-> 2023, m |-> 4, d |-> 30], [y |-> 2023, m |-> 5, d |-> 1]}

----------------------------------------------------------------------------
(* The functions of calculate *)

\* new Date(s) for a date input, as a day count that orders like getTime().
DateOf(s) == (s.y * 12 + (s.m - 1)) * 31 + s.d

\* Variant of DateRangeRejected: equal dates pass the check.
DateRangeRejectedStrict(start, end) == DateOf(start) > DateOf(end)

DateRangeRejected(start, end) == DateOf(start) >= DateOf(end)

\* The day the component is rendered on (todayStart), after both date inputs.
Today == [y |-> 2023, m |-> 5, d |-> 2]

\* parseLocalYMD(s) for a date of three parts, as a day count that orders
\* like the local midnights it returns.
parseLocalYMD(s) == (s.y * 12 + (s.m - 1)) * 31 + s.d

isDateRangeValid(start, end) ==
    LET locStart     == parseLocalYMD(start)
        locEnd       == parseLocalYMD(end)
        todayStart   == parseLocalYMD(Today)
        isStartValid == locStart < todayStart
        isEndValid   == locEnd < todayStart /\ locStart <= locEnd
    IN  isStartValid /\ isEndValid

\* Variant of checkInHeatingPeriod: the end day is left out of the period.
checkInHeatingPeriodOpenEnd(isoTime, c) ==
    LET currentVal == Whole(isoTime.m * 100 + isoTime.d)
        startVal   == RAdd(Whole(c.heatStartM * 100), c.heatStartD)
        endVal     == RAdd(Whole(c.heatEndM * 100), c.heatEndD)
    IN  IF RLe(startVal, endVal)
        THEN RGe(currentVal, startVal) /\ RLt(currentVal, endVal)
        ELSE RGe(currentVal, startVal) \/ RLt(currentVal, endVal)

checkInHeatingPeriod(isoTime, c) ==
    LET m          == isoTime.m
        day        == isoTime.d
        currentVal == Whole(m * 100 + day)
        startVal   == RAdd(Whole(c.heatStartM * 100), c.heatStartD)
        endVal     == RAdd(Whole(c.heatEndM * 100), c.heatEndD)
    IN  IF RLe(startVal, endVal)
        THEN RGe(currentVal, startVal) /\ RLe(currentVal, endVal)
        ELSE RGe(currentVal, startVal) \/ RLe(currentVal, endVal)

\* The number a relational or arithmetic operator reads from a sample:
\* null converts to +0.
ToNumber(tOut) == IF tOut = Null THEN Zero ELSE tOut

\* Variant of IsCalibHour: the null test is missing, null compares as +0.
IsCalibHourNoNullTest(tOut, isoTime, c) ==
    RLt(ToNumber(tOut), c.tempInnen) /\ checkInHeatingPeriod(isoTime, c)

\* Variant of IsCalibHour: the first pass of v1.3, which knows no heating period.
IsCalibHourNoPeriod(tOut, isoTime, c) ==
    tOut # Null /\ RLt(ToNumber(tOut), c.tempInnen)

\* The filter of the calibration pass.
IsCalibHour(tOut, isoTime, c) ==
    /\ tOut # Null
    /\ RLt(ToNumber(tOut), c.tempInnen)
    /\ checkInHeatingPeriod(isoTime, c)

\* One iteration of the calibration pass on the running sum.
CalibBody(sum, tOut, isoTime, c) ==
    IF IsCalibHour(tOut, isoTime, c)
    THEN RAdd(sum, RSub(c.tempInnen, ToNumber(tOut)))
    ELSE sum

\* if (tOut === null || tOut === undefined) continue;
SkipSample(tOut) == tOut = Null

\* Variant of IsHeatingHour: the heating limit itself counts as heating.
IsHeatingHourInclusive(tOut, isoTime, c) ==
    RLe(ToNumber(tOut), c.tempInnen) /\ checkInHeatingPeriod(isoTime, c)

\* The filter of the main loop, for a sample that was not skipped.
IsHeatingHour(tOut, isoTime, c) ==
    RLt(ToNumber(tOut), c.tempInnen) /\ checkInHeatingPeriod(isoTime, c)

\* Variant of NoWeatherData: the length of the series is not looked at.
NoWeatherDataNever(temps) == FALSE

\* if (!temps || temps.length === 0)
NoWeatherData(temps) == Len(temps) = 0

\* Variant of NoDegreeHours: only a negative sum stops the run.
NoDegreeHoursNegative(sumDH) == RLt(sumDH, Zero)

NoDegreeHours(sumDH) == sumDH = Zero

\* Variant of FuelKWh: litres of oil are taken as kWh.
FuelKWhUnconverted(c) == c.fuelAmount

FuelKWh(c) ==
    IF c.fuelType = "oil" THEN RMul(c.fuelAmount, Whole(10)) ELSE c.fuelAmount

TotalHeatDemandKWh(c) == RMul(FuelKWh(c), c.oldEff)

\* Variant without the kWh -> Wh conversion of the demand.
KLoadConsumptionKWh(c, sumDH) == RDiv(TotalHeatDemandKWh(c), sumDH)

KLoadConsumption(c, sumDH) ==
    RDiv(RMul(TotalHeatDemandKWh(c), Whole(1000)), sumDH)

KLoadPhysics(c) == RMul(c.uVal, c.area)

\* Variant of CurveIsDegenerate: the two points are never taken as one.
CurveIsDegenerateNever(c) == FALSE

CurveIsDegenerate(c) == RLt(RAbs(RSub(c.p2Out, c.p1Out)), Milli(1))

\* tVorlauf of the v1.3 component, which has the parametric curve only.
FlowTempV13(tOut, c) ==
    RAdd(RMul(c.paramA, RSub(c.tempInnen, tOut)), c.paramB)

\* Variant of FlowTemp: the parametric curve is the one of v1.3.
FlowTempIndoorDelta(tOut, c) ==
    IF c.curveMode = "points"
    THEN IF CurveIsDegenerate(c)
         THEN [v |-> RDiv(RAdd(c.p1Flow, c.p2Flow), Whole(2)), divs |-> {}]
         ELSE LET den   == RSub(c.p2Out, c.p1Out)
                  slope == RDiv(RSub(c.p2Flow, c.p1Flow), den)
              IN  [v    |-> RAdd(c.p1Flow, RMul(RSub(tOut, c.p1Out), slope)),
                   divs |-> {[site |-> "slope", den |-> den]}]
    ELSE [v |-> FlowTempV13(tOut, c), divs |-> {}]

\* tVorlauf, with the divisors used on the way.
FlowTemp(tOut, c) ==
    IF c.curveMode = "points"
    THEN IF CurveIsDegenerate(c)
         THEN [v |-> RDiv(RAdd(c.p1Flow, c.p2Flow), Whole(2)), divs |-> {}]
         ELSE LET den   == RSub(c.p2Out, c.p1Out)
                  slope == RDiv(RSub(c.p2Flow, c.p1Flow), den)
              IN  [v    |-> RAdd(c.p1Flow, RMul(RSub(tOut, c.p1Out), slope)),
                   divs |-> {[site |-> "slope", den |-> den]}]
    ELSE [v |-> RAdd(RMul(RNeg(tOut), c.paramA), c.paramB), divs |-> {}]

KelvinOffset == Milli(273150)

CarnotSentinel == Whole(99999)

\* Variant of CarnotInverted: equal temperatures are let through.
CarnotInvertedStrict(tVorlaufK, tOutK) == RLt(tVorlaufK, tOutK)

CarnotInverted(tVorlaufK, tOutK) == RLe(tVorlaufK, tOutK)

\* copCarnot, with the divisors used on the way.
CopCarnot(tVorlaufK, tOutK) ==
    IF CarnotInverted(tVorlaufK, tOutK)
    THEN [v |-> CarnotSentinel, divs |-> {}]
    ELSE LET den == RSub(tVorlaufK, tOutK)
         IN  [v |-> RDiv(tVorlaufK, den), divs |-> {[site |-> "carnot", den |-> den]}]

\* Variant of CopReal: the product is used as it is.
CopRealUnfloored(eff, copCarnot) == RMul(eff, copCarnot)

CopReal(eff, copCarnot) ==
    LET copReal == RMul(eff, copCarnot)
    IN  IF RLt(copReal, Whole(1)) THEN Whole(1) ELSE copReal

\* Variant of PElec: the heat load is divided by copReal whatever its size.
\* Variant that multiplies the load by the COP instead of dividing by it.
PElecTimesCop(qLoad, copReal) ==
    IF RGt(copReal, Whole(20000)) THEN Zero ELSE RMul(qLoad, copReal)

PElecAlwaysDivides(qLoad, copReal) == RDiv(qLoad, copReal)

PElec(qLoad, copReal) ==
    IF RGt(copReal, Whole(20000)) THEN Zero ELSE RDiv(qLoad, copReal)

\* Variant of JazDivides: the guard lets a zero electricity total through.
JazDividesFromZero(elecKWh) == RGe(elecKWh, Zero)

JazDivides(elecKWh) == RGt(elecKWh, Zero)

Jaz(heatKWh, elecKWh) ==
    IF JazDivides(elecKWh) THEN RDiv(heatKWh, elecKWh) ELSE Zero

\* maxHeatDate.replace('T', ' ')
ReplaceT(s) == IF "sep" \in DOMAIN s THEN [s EXCEPT !.sep = " "] ELSE s

\* The placeholder '-' of the two dates.
Dash == [text |-> "-"]

\* The block-scoped values of one heating hour of the main loop.
HourLocals(tOut, c, k) ==
    LET t         == ToNumber(tOut)
        qLoad     == RMul(k, RSub(c.tempInnen, t))
        flow      == FlowTemp(t, c)
        tVorlaufK == RAdd(flow.v, KelvinOffset)
        tOutK     == RAdd(t, KelvinOffset)
        carnot    == CopCarnot(tVorlaufK, tOutK)
        copReal   == CopReal(c.eff, carnot.v)
    IN  [tOut      |-> tOut,
         qLoad     |-> qLoad,
         tVorlauf  |-> flow.v,
         tVorlaufK |-> tVorlaufK,
         tOutK     |-> tOutK,
         copCarnot |-> carnot.v,
         copReal   |-> copReal,
         pElec     |-> PElec(qLoad, copReal),
         divs      |-> flow.divs \cup carnot.divs]

\* The running values of calculate before the first sample.
InitialTotals ==
    [totalHeatWh  |-> Zero, totalElecWh |-> Zero, heatHours |-> 0,
     maxHeatLoadW |-> Zero, maxHeatDate |-> Dash,
     maxElecLoadW |-> Zero, maxElecDate |-> Dash, maxElecTemp |-> Zero]

\* Variant of MainBody: a heat load equal to the running maximum takes
\* its place.
MainBodyLatestHeat(t, tOut, isoTime, c, k) ==
    IF SkipSample(tOut) THEN t
    ELSE IF ~IsHeatingHour(tOut, isoTime, c) THEN t
    ELSE LET h       == HourLocals(tOut, c, k)
             newHeat == RGe(h.qLoad, t.maxHeatLoadW)
             newElec == RGt(h.pElec, t.maxElecLoadW)
         IN  [totalHeatWh  |-> RAdd(t.totalHeatWh, h.qLoad),
              totalElecWh  |-> RAdd(t.totalElecWh, h.pElec),
              heatHours    |-> t.heatHours + 1,
              maxHeatLoadW |-> IF newHeat THEN h.qLoad ELSE t.maxHeatLoadW,
              maxHeatDate  |-> IF newHeat THEN isoTime ELSE t.maxHeatDate,
              maxElecLoadW |-> IF newElec THEN h.pElec ELSE t.maxElecLoadW,
              maxElecDate  |-> IF newElec THEN isoTime ELSE t.maxElecDate,
              maxElecTemp  |-> IF newElec THEN tOut ELSE t.maxElecTemp]

\* Variant of MainBody: the outdoor temperature of the electrical maximum
\* is stored in the block that updates the heat maximum.
MainBodyTempOfHeatMax(t, tOut, isoTime, c, k) ==
    IF SkipSample(tOut) THEN t
    ELSE IF ~IsHeatingHour(tOut, isoTime, c) THEN t
    ELSE LET h       == HourLocals(tOut, c, k)
             newHeat == RGt(h.qLoad, t.maxHeatLoadW)
             newElec == RGt(h.pElec, t.maxElecLoadW)
         IN  [totalHeatWh  |-> RAdd(t.totalHeatWh, h.qLoad),
              totalElecWh  |-> RAdd(t.totalElecWh, h.pElec),
              heatHours    |-> t.heatHours + 1,
              maxHeatLoadW |-> IF newHeat THEN h.qLoad ELSE t.maxHeatLoadW,
              maxHeatDate  |-> IF newHeat THEN isoTime ELSE t.maxHeatDate,
              maxElecLoadW |-> IF newElec THEN h.pElec ELSE t.maxElecLoadW,
              maxElecDate  |-> IF newElec THEN isoTime ELSE t.maxElecDate,
              maxElecTemp  |-> IF newHeat THEN tOut ELSE t.maxElecTemp]

\* One iteration of the main loop on the running values t.
MainBody(t, tOut, isoTime, c, k) ==
    IF SkipSample(tOut) THEN t
    ELSE IF ~IsHeatingHour(tOut, isoTime, c) THEN t
    ELSE LET h       == HourLocals(tOut, c, k)
             newHeat == RGt(h.qLoad, t.maxHeatLoadW)
             newElec == RGt(h.pElec, t.maxElecLoadW)
         IN  [totalHeatWh  |-> RAdd(t.totalHeatWh, h.qLoad),
              totalElecWh  |-> RAdd(t.totalElecWh, h.pElec),
              heatHours    |-> t.heatHours + 1,
              maxHeatLoadW |-> IF newHeat THEN h.qLoad ELSE t.maxHeatLoadW,
              maxHeatDate  |-> IF newHeat THEN isoTime ELSE t.maxHeatDate,
              maxElecLoadW |-> IF newElec THEN h.pElec ELSE t.maxElecLoadW,
              maxElecDate  |-> IF newElec THEN isoTime ELSE t.maxElecDate,
              maxElecTemp  |-> IF newElec THEN tOut ELSE t.maxElecTemp]

\* The calibration pass from sample j on.
RECURSIVE CalibPass(_, _, _, _, _)
CalibPass(sum, j, temps, time, c) ==
    IF j > Len(temps) THEN sum
    ELSE CalibPass(CalibBody(sum, temps[j], time[j], c), j + 1, temps, time, c)

\* The main loop from sample j on.
RECURSIVE MainPass(_, _, _, _, _, _)
MainPass(t, j, temps, time, c, k) ==
    IF j > Len(temps) THEN t
    ELSE MainPass(MainBody(t, temps[j], time[j], c, k), j + 1, temps, time, c, k)

\* Variant of HoursTotal: only the samples that carry a temperature count.
HoursTotalNonNull(temps) == Cardinality({j \in 1..Len(temps) : temps[j] # Null})

HoursTotal(temps) == Len(temps)

\* The object handed to setResult.
ResultOf(t, temps, start, end) ==
    LET heatKWh == RDiv(t.totalHeatWh, Whole(1000))
        elecKWh == RDiv(t.totalElecWh, Whole(1000))
    IN  [hoursTotal   |-> HoursTotal(temps),
         hoursHeating |-> t.heatHours,
         heatKWh      |-> heatKWh,
         elecKWh      |-> elecKWh,
         jaz          |-> Jaz(heatKWh, elecKWh),
         maxHeatLoadW |-> t.maxHeatLoadW,
         maxHeatDate  |-> ReplaceT(t.maxHeatDate),
         maxElecLoadW |-> t.maxElecLoadW,
         maxElecDate  |-> ReplaceT(t.maxElecDate),
         maxElecTemp  |-> t.maxElecTemp,
         startDate    |-> start,
         endDate      |-> end]

\* calculate from the archive's answer on, as a function of its inputs.
RunOf(temps, time, c, start, end) ==
    IF NoWeatherData(temps)
    THEN [error |-> "Keine Wetterdaten empfangen.", result |-> [null |-> TRUE]]
    ELSE IF c.calcMode = "consumption"
            /\ NoDegreeHours(CalibPass(Zero, 1, temps, time, c))
    THEN [error  |-> "Keine Heizstunden im Zeitraum (oder Pruefung auf Heizgrenze fehlgeschlagen).",
          result |-> [null |-> TRUE]]
    ELSE LET k == IF c.calcMode = "consumption"
                  THEN KLoadConsumption(c, CalibPass(Zero, 1, temps, time, c))
                  ELSE KLoadPhysics(c)
         IN  [error  |-> "",
              result |-> ResultOf(MainPass(InitialTotals, 1, temps, time, c, k),
                                  temps, start, end)]

----------------------------------------------------------------------------
(* State *)

VARIABLES
    cfg,            \* the form fields read by calculate
    startDate,      \* the two date inputs
    endDate,
    loading,        \* React state written by calculate
    error,
    result,
    pc,             \* where the running calculate is: idle, fetch, calib, physics, main
    resp,           \* the archive's answer (resp.data.hourly)
    i,              \* loop index of the running pass (1-based)
    sumDegreeHours,
    k_load,
    totals,         \* totalHeatWh, totalElecWh, heatHours and the two maxima
    hour,           \* block-scoped values of the latest main loop iteration
    calIdx,         \* samples that added to sumDegreeHours
    heatIdx,        \* samples counted as heating hours
    divLog,         \* divisors of the divisions performed by this run
    probe,          \* a single evaluation of checkInHeatingPeriod
    last            \* the answer and the result of the call before this one

vars ==
    <<cfg, startDate, endDate, loading, error, result, pc, resp, i,
      sumDegreeHours, k_load, totals, hour, calIdx, heatIdx, divLog, probe,
      last>>

\* What a call of calculate leaves alone: the form fields, and the two
\* records kept of evaluations outside of it.
inputs == <<cfg, startDate, endDate, probe, last>>

ui == <<loading, error, result>>

NullResult == [null |-> TRUE]

NoResponse == [time |-> <<>>, temperature_2m |-> <<>>]

NoHour == [heating |-> FALSE]

NoProbe == [probed |-> FALSE]

NoLast == [seen |-> FALSE]

ErrDateRange == "Startdatum muss vor Enddatum liegen."

ErrNoData == "Keine Wetterdaten empfangen."

ErrNoHeatingHours ==
    "Keine Heizstunden im Zeitraum (oder Pruefung auf Heizgrenze fehlgeschlagen)."

ErrFetch == "Fehler beim Abrufen der Wetterdaten oder Berechnen."

\* Variant of FreshLocals: the running values are declared outside of
\* calculate and live on from call to call.
FreshLocalsKeepTotals ==
    /\ resp' = NoResponse
    /\ i' = 1
    /\ sumDegreeHours' = Zero
    /\ k_load' = Zero
    /\ totals' = totals
    /\ hour' = NoHour
    /\ calIdx' = {}
    /\ heatIdx' = {}
    /\ divLog' = {}

\* The variables declared with let inside calculate, as a call begins.
FreshLocals ==
    /\ resp' = NoResponse
    /\ i' = 1
    /\ sumDegreeHours' = Zero
    /\ k_load' = Zero
    /\ totals' = InitialTotals
    /\ hour' = NoHour
    /\ calIdx' = {}
    /\ heatIdx' = {}
    /\ divLog' = {}

locals == <<resp, i, sumDegreeHours, k_load, totals, hour, calIdx, heatIdx, divLog>>

Init ==
    /\ cfg \in Configs
    /\ startDate \in DateInputs
    /\ endDate \in DateInputs
    /\ loading = FALSE
    /\ error = ""
    /\ result = NullResult
    /\ pc = "idle"
    /\ resp = NoResponse
    /\ i = 1
    /\ sumDegreeHours = Zero
    /\ k_load = Zero
    /\ totals = InitialTotals
    /\ hour = NoHour
    /\ calIdx = {}
    /\ heatIdx = {}
    /\ divLog = {}
    /\ probe = NoProbe
    /\ last = NoLast

----------------------------------------------------------------------------
(* calculate, step by step *)

\* The button that calls calculate is enabled.
ButtonEnabled == ~loading /\ isDateRangeValid(startDate, endDate)

\* The click with a start date that is not before the end date.
CalculateRejected ==
    /\ ButtonEnabled
    /\ pc = "idle"
    /\ DateRangeRejected(startDate, endDate)
    /\ loading' = FALSE
    /\ error' = ErrDateRange
    /\ result' = NullResult
    /\ FreshLocals
    /\ UNCHANGED <<inputs, pc>>

\* The click that passes the date check and issues the archive request.
CalculateStart ==
    /\ ButtonEnabled
    /\ pc = "idle"
    /\ ~DateRangeRejected(startDate, endDate)
    /\ loading' = TRUE
    /\ error' = ""
    /\ result' = NullResult
    /\ pc' = "fetch"
    /\ FreshLocals
    /\ UNCHANGED inputs

\* The request throws, or the body has no hourly object.
FetchFail ==
    /\ pc = "fetch"
    /\ error' = ErrFetch
    /\ loading' = FALSE
    /\ pc' = "idle"
    /\ UNCHANGED <<inputs, result, locals>>

\* temperature_2m is missing or empty.
FetchEmpty ==
    /\ pc = "fetch"
    /\ \E r \in Responses :
        /\ NoWeatherData(r.temperature_2m)
        /\ resp' = r
    /\ error' = ErrNoData
    /\ loading' = FALSE
    /\ pc' = "idle"
    /\ UNCHANGED <<inputs, result, i, sumDegreeHours, k_load, totals, hour,
                   calIdx, heatIdx, divLog>>

FetchOk ==
    /\ pc = "fetch"
    /\ \E r \in Responses :
        /\ ~NoWeatherData(r.temperature_2m)
        /\ resp' = r
    /\ pc' = IF cfg.calcMode = "consumption" THEN "calib" ELSE "physics"
    /\ UNCHANGED <<inputs, ui, i, sumDegreeHours, k_load, totals, hour,
                   calIdx, heatIdx, divLog>>

\* One iteration of the first pass.
CalibStep ==
    /\ pc = "calib"
    /\ i <= Len(resp.temperature_2m)
    /\ LET tOut == resp.temperature_2m[i]
       IN  /\ sumDegreeHours' = CalibBody(sumDegreeHours, tOut, resp.time[i], cfg)
           /\ calIdx' = IF IsCalibHour(tOut, resp.time[i], cfg)
                        THEN calIdx \cup {i} ELSE calIdx
    /\ i' = i + 1
    /\ UNCHANGED <<inputs, ui, pc, resp, k_load, totals, hour, heatIdx, divLog>>

\* The first pass found no degree hours.
CalibFail ==
    /\ pc = "calib"
    /\ i > Len(resp.temperature_2m)
    /\ NoDegreeHours(sumDegreeHours)
    /\ error' = ErrNoHeatingHours
    /\ loading' = FALSE
    /\ pc' = "idle"
    /\ UNCHANGED <<inputs, result, locals>>

CalibDone ==
    /\ pc = "calib"
    /\ i > Len(resp.temperature_2m)
    /\ ~NoDegreeHours(sumDegreeHours)
    /\ k_load' = KLoadConsumption(cfg, sumDegreeHours)
    /\ divLog' = divLog \cup {[site |-> "k_load", den |-> sumDegreeHours]}
    /\ i' = 1
    /\ pc' = "main"
    /\ UNCHANGED <<inputs, ui, resp, sumDegreeHours, totals, hour, calIdx, heatIdx>>

Physics ==
    /\ pc = "physics"
    /\ k_load' = KLoadPhysics(cfg)
    /\ i' = 1
    /\ pc' = "main"
    /\ UNCHANGED <<inputs, ui, resp, sumDegreeHours, totals, hour, calIdx,
                   heatIdx, divLog>>

\* Variant of MainStep: the iteration assigns uVal * area to k_load.
MainStepResolvesKLoad ==
    /\ pc = "main"
    /\ i <= Len(resp.temperature_2m)
    /\ LET tOut    == resp.temperature_2m[i]
           heating == ~SkipSample(tOut) /\ IsHeatingHour(tOut, resp.time[i], cfg)
           h       == HourLocals(tOut, cfg, k_load)
       IN  /\ totals' = MainBody(totals, tOut, resp.time[i], cfg, k_load)
           /\ hour' = IF heating THEN Merge([heating |-> TRUE], h) ELSE NoHour
           /\ heatIdx' = IF heating THEN heatIdx \cup {i} ELSE heatIdx
           /\ divLog' = IF heating THEN divLog \cup h.divs ELSE divLog
    /\ i' = i + 1
    /\ k_load' = KLoadPhysics(cfg)
    /\ UNCHANGED <<inputs, ui, pc, resp, sumDegreeHours, calIdx>>

\* One iteration of the main loop.
MainStep ==
    /\ pc = "main"
    /\ i <= Len(resp.temperature_2m)
    /\ LET tOut    == resp.temperature_2m[i]
           heating == ~SkipSample(tOut) /\ IsHeatingHour(tOut, resp.time[i], cfg)
           h       == HourLocals(tOut, cfg, k_load)
       IN  /\ totals' = MainBody(totals, tOut, resp.time[i], cfg, k_load)
           /\ hour' = IF heating THEN Merge([heating |-> TRUE], h) ELSE NoHour
           /\ heatIdx' = IF heating THEN heatIdx \cup {i} ELSE heatIdx
           /\ divLog' = IF heating THEN divLog \cup h.divs ELSE divLog
    /\ i' = i + 1
    /\ UNCHANGED <<inputs, ui, pc, resp, sumDegreeHours, k_load, calIdx>>

Finish ==
    /\ pc = "main"
    /\ i > Len(resp.temperature_2m)
    /\ result' = ResultOf(totals, resp.temperature_2m, startDate, endDate)
    /\ divLog' = LET elecKWh == RDiv(totals.totalElecWh, Whole(1000))
                 IN  IF JazDivides(elecKWh)
                     THEN divLog \cup {[site |-> "jaz", den |-> elecKWh]}
                     ELSE divLog
    /\ loading' = FALSE
    /\ pc' = "idle"
    /\ UNCHANGED <<inputs, error, resp, i, sumDegreeHours, k_load, totals, hour,
                   calIdx, heatIdx, probe>>

Next ==
    \/ CalculateRejected
    \/ CalculateStart
    \/ FetchFail
    \/ FetchEmpty
    \/ FetchOk
    \/ CalibStep
    \/ CalibFail
    \/ CalibDone
    \/ Physics
    \/ MainStep
    \/ Finish

Spec == Init /\ [][Next]_vars

----------------------------------------------------------------------------
(* The heating period predicate on its own *)

\* The initial values of the form fields.
DefaultConfig ==
    [eff |-> Num(1, 2), tempInnen |-> Whole(20),
     curveMode |-> "params", paramA |-> Whole(1), paramB |-> Whole(22),
     p1Out |-> Whole(20), p1Flow |-> Whole(25),
     p2Out |-> Whole(-15), p2Flow |-> Whole(55),
     calcMode |-> "physics", area |-> Whole(100), uVal |-> Num(1, 2),
     fuelType |-> "gas", fuelAmount |-> Whole(15000), oldEff |-> Num(17, 20),
     heatStartD |-> Whole(1), heatStartM |-> 10,
     heatEndD |-> Whole(30), heatEndM |-> 4]

\* Days offered for the two period boundaries (the day field takes 1..31
\* whatever the month) and for the sample.
BoundaryDays == {1, 15, 31}

Months == 1..12

DaysIn(m) == IF m = 2 THEN 28 ELSE IF m \in {4, 6, 9, 11} THEN 30 ELSE 31

ProbeTimes ==
    {t \in {[y |-> 2023, m |-> m, d |-> d, sep |-> "T", h |-> 0] :
                m \in Months, d \in {1, 15, 28, 30, 31}} : t.d <= DaysIn(t.m)}

InitPeriod ==
    /\ \E sd \in BoundaryDays, sm \in Months, ed \in BoundaryDays, em \in Months :
          cfg = [DefaultConfig EXCEPT !.heatStartD = Whole(sd), !.heatStartM = sm,
                                      !.heatEndD = Whole(ed), !.heatEndM = em]
    /\ startDate = [y |-> 2023, m |-> 4, d |-> 30]
    /\ endDate = [y |-> 2023, m |-> 5, d |-> 1]
    /\ loading = FALSE
    /\ error = ""
    /\ result = NullResult
    /\ pc = "idle"
    /\ resp = NoResponse
    /\ i = 1
    /\ sumDegreeHours = Zero
    /\ k_load = Zero
    /\ totals = InitialTotals
    /\ hour = NoHour
    /\ calIdx = {}
    /\ heatIdx = {}
    /\ divLog = {}
    /\ probe = NoProbe
    /\ last = NoLast

\* checkInHeatingPeriod applied to one timestamp.
ProbePeriod ==
    /\ \E t \in ProbeTimes :
          probe' = [probed |-> TRUE, isoTime |-> t,
                    inPeriod |-> checkInHeatingPeriod(t, cfg)]
    /\ UNCHANGED <<cfg, startDate, endDate, ui, pc, locals, last>>

SpecPeriod == InitPeriod /\ [][ProbePeriod]_vars

----------------------------------------------------------------------------
(* calculate called again on the same form and the same weather *)

\* The form holds the default heating period.
InitRerun == Init /\ cfg.heatStartM = 10 /\ cfg.heatStartD = Whole(1)

\* Variant of the further click that leaves the shown result in place.
CalculateAgainKeepsResult ==
    /\ ButtonEnabled
    /\ pc = "idle"
    /\ result # NullResult
    /\ ~DateRangeRejected(startDate, endDate)
    /\ last' = [seen |-> TRUE, resp |-> resp, result |-> result]
    /\ loading' = TRUE
    /\ error' = ""
    /\ pc' = "fetch"
    /\ FreshLocals
    /\ UNCHANGED <<cfg, startDate, endDate, probe, result>>

\* A further click on the form that shows a result.
CalculateAgain ==
    /\ ButtonEnabled
    /\ pc = "idle"
    /\ result # NullResult
    /\ ~DateRangeRejected(startDate, endDate)
    /\ last' = [seen |-> TRUE, resp |-> resp, result |-> result]
    /\ loading' = TRUE
    /\ error' = ""
    /\ result' = NullResult
    /\ pc' = "fetch"
    /\ FreshLocals
    /\ UNCHANGED <<cfg, startDate, endDate, probe>>

\* The archive answers the request as it answered the one before.
FetchAgain ==
    /\ pc = "fetch"
    /\ last.seen
    /\ ~NoWeatherData(last.resp.temperature_2m)
    /\ resp' = last.resp
    /\ pc' = IF cfg.calcMode = "consumption" THEN "calib" ELSE "physics"
    /\ UNCHANGED <<inputs, ui, i, sumDegreeHours, k_load, totals, hour,
                   calIdx, heatIdx, divLog>>

\* A first call with any answer of the archive, then calls that find the
\* answer of the first.
NextRerun ==
    \/ ~last.seen /\ CalculateRejected
    \/ ~last.seen /\ CalculateStart
    \/ ~last.seen /\ FetchFail
    \/ ~last.seen /\ FetchEmpty
    \/ ~last.seen /\ FetchOk
    \/ CalculateAgain
    \/ FetchAgain
    \/ CalibStep
    \/ CalibFail
    \/ CalibDone
    \/ Physics
    \/ MainStep
    \/ Finish

SpecRerun == InitRerun /\ [][NextRerun]_vars

\* The calls of NextRerun, and further calls whose request fails or comes
\* back without data.
NextRetry ==
    \/ NextRerun
    \/ last.seen /\ FetchFail
    \/ last.seen /\ FetchEmpty

SpecRetry == InitRerun /\ [][NextRetry]_vars

----------------------------------------------------------------------------
(* Properties *)

Temperatures == resp.temperature_2m

HasResult == result # NullResult

\* The sample the running pass is about to process.
AtSample == i <= Len(Temperatures)

\* C1: whenever calculate has produced a result, hoursHeating <= hoursTotal
\* and hoursTotal is the length of the series, null entries included.
C1_HoursBounded ==
    HasResult =>
        /\ result.hoursHeating <= result.hoursTotal
        /\ result.hoursTotal = Len(Temperatures)

\* A result for a series with a null entry, a heating hour and a third sample.
C1_Witness ==
    /\ HasResult
    /\ \E j \in 1..Len(Temperatures) : Temperatures[j] = Null
    /\ result.hoursHeating > 0
    /\ result.hoursHeating < result.hoursTotal

\* C2 as stated: jaz is 0 when elecKWh is 0 and heatKWh / elecKWh for every
\* other elecKWh.
C2_AsStated ==
    HasResult =>
        /\ result.elecKWh = Zero => result.jaz = Zero
        /\ result.elecKWh # Zero => result.jaz = RDiv(result.heatKWh, result.elecKWh)

\* C2 (amended): jaz is heatKWh / elecKWh when elecKWh > 0 and exactly 0
\* otherwise; it is a finite number and no division by zero produced it.
C2_JazGuarded ==
    HasResult =>
        /\ RGt(result.elecKWh, Zero) => result.jaz = RDiv(result.heatKWh, result.elecKWh)
        /\ ~RGt(result.elecKWh, Zero) => result.jaz = Zero
        /\ IsFinite(result.jaz)
        /\ \A x \in divLog : x.site = "jaz" => RGt(x.den, Zero)

\* A result with heating hours whose electricity total is 0, and one whose
\* electricity total is negative.
C2_Witness ==
    /\ HasResult
    /\ result.hoursHeating > 0
    /\ result.elecKWh = Zero
    /\ result.heatKWh # Zero

\* C3: an iteration of the main loop on a sample at or above the indoor
\* temperature leaves heatHours, both totals and both maxima as they were.
C3_WarmSampleFrame ==
    [][(/\ pc = "main"
        /\ AtSample
        /\ Temperatures[i] # Null
        /\ RGe(Temperatures[i], cfg.tempInnen)) => totals' = totals]_vars

\* The main loop has passed a sample at the indoor temperature and one
\* above it after a heating hour.
C3_Witness ==
    /\ pc = "main"
    /\ i > 3
    /\ Temperatures[i - 2] = cfg.tempInnen
    /\ Temperatures[i - 1] # Null
    /\ RGt(Temperatures[i - 1], cfg.tempInnen)
    /\ totals.heatHours > 0
    /\ totals.maxElecLoadW # Zero

\* The day a day field holds (a whole number).
DayNumber(x) == x[1]

\* C5: with dates encoded as month*100+day, checkInHeatingPeriod is true
\* exactly for start <= current <= end when start <= end, and exactly for
\* current >= start or current <= end when start > end.
C5_PeriodPredicate ==
    probe.probed =>
        LET current == probe.isoTime.m * 100 + probe.isoTime.d
            start   == cfg.heatStartM * 100 + DayNumber(cfg.heatStartD)
            end     == cfg.heatEndM * 100 + DayNumber(cfg.heatEndD)
        IN  /\ start <= end => (probe.inPeriod <=> (start <= current /\ current <= end))
            /\ start > end  => (probe.inPeriod <=> (current >= start \/ current <= end))

\* A sample on the last day of a period that wraps over the year boundary.
C5_Witness ==
    /\ probe.probed
    /\ probe.inPeriod
    /\ cfg.heatStartM * 100 + DayNumber(cfg.heatStartD)
          > cfg.heatEndM * 100 + DayNumber(cfg.heatEndD)
    /\ probe.isoTime.m = cfg.heatEndM
    /\ probe.isoTime.d = DayNumber(cfg.heatEndD)


\* seq without the positions at which temps is null.
RECURSIVE Keep(_, _)
Keep(seq, temps) ==
    IF temps = <<>> THEN <<>>
    ELSE (IF Head(temps) = Null THEN <<>> ELSE <<Head(seq)>>)
         \o Keep(Tail(seq), Tail(temps))

\* The run of calculate on the series with its null entries removed.
RunWithoutNulls ==
    RunOf(Keep(Temperatures, Temperatures), Keep(resp.time, Temperatures),
          cfg, startDate, endDate)

\* r reports the energies, heating hours and maxima of the displayed result.
SameTotals(r) ==
    /\ r # NullResult
    /\ r.hoursHeating = result.hoursHeating
    /\ r.heatKWh = result.heatKWh
    /\ r.elecKWh = result.elecKWh
    /\ r.jaz = result.jaz
    /\ r.maxHeatLoadW = result.maxHeatLoadW
    /\ r.maxHeatDate = result.maxHeatDate
    /\ r.maxElecLoadW = result.maxElecLoadW
    /\ r.maxElecDate = result.maxElecDate
    /\ r.maxElecTemp = result.maxElecTemp

\* A null sample leaves the running values of both passes as they were.
NullSampleFrame ==
    [][(/\ AtSample
        /\ Temperatures[i] = Null
        /\ pc \in {"calib", "main"}) =>
            /\ sumDegreeHours' = sumDegreeHours
            /\ calIdx' = calIdx
            /\ totals' = totals
            /\ heatIdx' = heatIdx]_vars

\* C4 as stated: a null sample changes no running total, and every series
\* that yields a result yields the same energies, heating hours and maxima
\* once its null entries are removed.
C4_AsStated == HasResult => SameTotals(RunWithoutNulls.result)

\* C4 (amended): a null sample changes no running total, and a series that
\* yields a result and has at least one entry that is not null yields the
\* same energies, heating hours and maxima once its null entries are removed.
C4_NullSamplesSkipped ==
    /\ NullSampleFrame
    /\ [](HasResult /\ (\E j \in 1..Len(Temperatures) : Temperatures[j] # Null)
            => SameTotals(RunWithoutNulls.result))

\* A result with heating hours on both sides of a null entry.
C4_Witness ==
    /\ HasResult
    /\ Len(Temperatures) = 3
    /\ Temperatures[2] = Null
    /\ result.hoursHeating = 2
    /\ cfg.calcMode = "consumption"

\* C6: in consumption mode the samples that added to sumDegreeHours are
\* the samples counted as heating hours, and all of them lie inside the
\* heating period.
C6_SameFilter ==
    cfg.calcMode = "consumption" =>
        /\ pc = "main" => heatIdx = {j \in calIdx : j < i}
        /\ HasResult => heatIdx = calIdx
        /\ \A j \in calIdx \cup heatIdx : checkInHeatingPeriod(resp.time[j], cfg)

\* A result in consumption mode for a series with a heating hour inside the
\* period and a sample below the indoor temperature outside of it.
C6_Witness ==
    /\ HasResult
    /\ cfg.calcMode = "consumption"
    /\ heatIdx # {}
    /\ \E j \in 1..Len(Temperatures) :
          /\ Temperatures[j] # Null
          /\ RLt(Temperatures[j], cfg.tempInnen)
          /\ j \notin heatIdx

\* The sum of f over the finite set S.
RECURSIVE SumOver(_, _)
SumOver(S, f) ==
    IF S = {} THEN Zero
    ELSE LET x == CHOOSE y \in S : TRUE
         IN  RAdd(f[x], SumOver(S \ {x}, f))

\* The samples that are not null, below the indoor temperature and inside
\* the heating period.
Qualifying ==
    {j \in 1..Len(Temperatures) :
        /\ Temperatures[j] # Null
        /\ RLt(Temperatures[j], cfg.tempInnen)
        /\ checkInHeatingPeriod(resp.time[j], cfg)}

DegreeHours ==
    SumOver(Qualifying, [j \in Qualifying |-> RSub(cfg.tempInnen, Temperatures[j])])

\* The example of the calibration: 100 hours 10 K below the indoor
\* temperature, gas, fuelAmount 1000, oldSystemEfficiency 0.9.
ExampleConfig ==
    [DefaultConfig EXCEPT !.tempInnen = Warm, !.calcMode = "consumption",
                          !.fuelType = "gas", !.fuelAmount = Whole(1000),
                          !.oldEff = Num(9, 10),
                          !.heatStartD = Whole(1), !.heatStartM = 1,
                          !.heatEndD = Whole(31), !.heatEndM = 12]

\* sumDegreeHours after n times ten of these hours: the first pass run on
\* ten hours at a time, each run starting from the (finite) sum of the one
\* before.
RECURSIVE ExampleSum(_)
ExampleSum(n) ==
    IF n = 0 THEN Zero
    ELSE LET before == ExampleSum(n - 1)
         IN  IF IsFinite(before)
             THEN CalibPass(before, 1, [k \in 1..10 |-> Mild],
                            [k \in 1..10 |-> TimeAt(k)], ExampleConfig)
             ELSE before

ExampleKLoad == KLoadConsumption(ExampleConfig, ExampleSum(10))

\* C7: in consumption mode the main loop runs with
\* k_load = fuelEnergyKWh * oldEff * 1000 / sumDegreeHours, fuelEnergyKWh
\* being fuelAmount for gas and 10 * fuelAmount for oil and sumDegreeHours
\* the sum of (indoor - outdoor) over the qualifying samples; the example
\* gives 900 W/K.
C7_KLoadCalibrated ==
    (cfg.calcMode = "consumption" /\ pc = "main") =>
        LET fuelEnergyKWh == IF cfg.fuelType = "gas" THEN cfg.fuelAmount
                             ELSE RMul(Whole(10), cfg.fuelAmount)
        IN  /\ sumDegreeHours = DegreeHours
            /\ RGt(sumDegreeHours, Zero)
            /\ k_load = RDiv(RMul(RMul(fuelEnergyKWh, cfg.oldEff), Whole(1000)),
                             DegreeHours)
            /\ (i = 1 /\ Len(Temperatures) = 1) =>
                  ExampleSum(10) = Whole(1000) /\ ExampleKLoad = Whole(900)

\* The main loop is entered with a coefficient calibrated from oil over two
\* qualifying samples and one sample outside the heating period.
C7_Witness ==
    /\ cfg.calcMode = "consumption"
    /\ cfg.fuelType = "oil"
    /\ pc = "main"
    /\ Cardinality(Qualifying) = 2
    /\ Len(Temperatures) = 3
    /\ \A j \in 1..3 : Temperatures[j] \in {Cold, Mild}

\* C8: a calibration pass that ends with sumDegreeHours = 0 (no sample
\* qualified) ends the run with the error for missing heating hours: no
\* result, loading off, the main loop not entered, k_load not computed and
\* no division by sumDegreeHours.
C8_NoDegreeHoursFails ==
    /\ [][(pc = "calib" /\ ~AtSample /\ sumDegreeHours = Zero) =>
            /\ error' = ErrNoHeatingHours
            /\ result' = NullResult
            /\ loading' = FALSE
            /\ pc' = "idle"
            /\ UNCHANGED <<k_load, totals, heatIdx, divLog>>]_vars
    /\ [](pc = "calib" /\ ~AtSample => (sumDegreeHours = Zero <=> Qualifying = {}))
    /\ [](\A x \in divLog : x.site = "k_load" => x.den # Zero)
    /\ [](error = ErrNoHeatingHours =>
            /\ ~HasResult
            /\ heatIdx = {}
            /\ totals = InitialTotals
            /\ \A x \in divLog : x.site # "k_load")

\* The run has failed for want of degree hours although a sample lies below
\* the indoor temperature (outside the heating period).
C8_Witness ==
    /\ error = ErrNoHeatingHours
    /\ pc = "idle"
    /\ ~loading
    /\ \E j \in 1..Len(Temperatures) :
          Temperatures[j] # Null /\ RLt(Temperatures[j], cfg.tempInnen)

\* C9: in every heating hour copCarnot is 99999 and nothing is divided if
\* flowK <= outdoorK (so when the flow temperature equals the outdoor
\* temperature), and flowK / (flowK - outdoorK) with a positive divisor
\* otherwise.
C9_CarnotGuarded ==
    /\ hour.heating =>
        /\ hour.tVorlaufK = RAdd(hour.tVorlauf, Milli(273150))
        /\ hour.tOutK = RAdd(hour.tOut, Milli(273150))
        /\ hour.tVorlauf = hour.tOut => hour.copCarnot = Whole(99999)
        /\ IF RLe(hour.tVorlaufK, hour.tOutK)
           THEN /\ hour.copCarnot = Whole(99999)
                /\ \A x \in hour.divs : x.site # "carnot"
           ELSE /\ hour.copCarnot =
                      RDiv(hour.tVorlaufK, RSub(hour.tVorlaufK, hour.tOutK))
                /\ [site |-> "carnot", den |-> RSub(hour.tVorlaufK, hour.tOutK)]
                      \in hour.divs
    /\ \A x \in divLog : x.site = "carnot" => RGt(x.den, Zero)

\* A heating hour whose flow temperature equals its outdoor temperature.
C9_Witness ==
    /\ hour.heating
    /\ hour.tVorlauf = hour.tOut
    /\ hour.copCarnot = Whole(99999)

\* C10: with the two curve points less than 0.001 apart in outdoor
\* temperature, every heating hour gets the flow temperature
\* (p1Flow + p2Flow) / 2 and nothing is divided by p2Out - p1Out.
C10_DegenerateCurve ==
    (/\ cfg.curveMode = "points"
     /\ RLt(RAbs(RSub(cfg.p2Out, cfg.p1Out)), Milli(1))) =>
        /\ hour.heating =>
              hour.tVorlauf = RDiv(RAdd(cfg.p1Flow, cfg.p2Flow), Whole(2))
        /\ \A x \in divLog : x.site # "slope"

\* Two heating hours of different outdoor temperature under a curve whose
\* points share one outdoor temperature.
C10_Witness ==
    /\ cfg.curveMode = "points"
    /\ cfg.p1Out = cfg.p2Out
    /\ hour.heating
    /\ Cardinality({Temperatures[j] : j \in heatIdx}) = 2

\* The example of the parametric curve: outdoor -5, indoor 20, a = 1, b = 30.
FlowExample ==
    [DefaultConfig EXCEPT !.tempInnen = Whole(20), !.curveMode = "params",
                          !.paramA = Whole(1), !.paramB = Whole(30)]

\* C11 as stated: in parametric mode the flow temperature of every heating
\* hour is a * (indoor - outdoor) + b.
C11_AsStated ==
    (cfg.curveMode = "params" /\ hour.heating) =>
        hour.tVorlauf =
            RAdd(RMul(cfg.paramA, RSub(cfg.tempInnen, hour.tOut)), cfg.paramB)

\* C11 (amended): in parametric mode the flow temperature of every heating
\* hour is b - a * outdoor, taken at that hour's outdoor temperature; the
\* example gives 35, and 55 only with the formula of the v1.3 component.
C11_FlowParametric ==
    (cfg.curveMode = "params" /\ hour.heating) =>
        /\ pc = "main" => hour.tOut = Temperatures[i - 1]
        /\ hour.tVorlauf = RSub(cfg.paramB, RMul(cfg.paramA, hour.tOut))
        /\ FlowTemp(Whole(-5), FlowExample).v = Whole(35)
        /\ FlowTempV13(Whole(-5), FlowExample) = Whole(55)

\* Heating hours at two outdoor temperatures under the parametric curve,
\* the latest with a flow temperature of its own.
C11_Witness ==
    /\ cfg.curveMode = "params"
    /\ hour.heating
    /\ pc = "main"
    /\ Cardinality({Temperatures[j] : j \in heatIdx}) = 2
    /\ hour.tVorlauf # FlowTemp(Temperatures[1], cfg).v

\* C12 as stated: a run that received an empty series ends with a result
\* of 0 hours, 0 heating hours, maxima of 0 with placeholder dates and a
\* performance factor of 0.
C12_AsStated ==
    (pc = "idle" /\ error = ErrNoData) =>
        /\ HasResult
        /\ result.hoursTotal = 0
        /\ result.hoursHeating = 0
        /\ result.maxHeatLoadW = Zero
        /\ result.maxHeatDate = Dash
        /\ result.maxElecLoadW = Zero
        /\ result.maxElecDate = Dash
        /\ result.jaz = Zero

\* C12 (amended): a run that received an empty series ends with the error
\* for missing weather data, without a result, with loading off and before
\* any step of the calibration pass or the main loop; no result is ever
\* reported for an empty series.
C12_EmptySeriesFails ==
    /\ error = ErrNoData =>
          /\ Len(Temperatures) = 0
          /\ ~HasResult
          /\ ~loading
          /\ pc = "idle"
          /\ sumDegreeHours = Zero
          /\ totals = InitialTotals
          /\ calIdx = {} /\ heatIdx = {} /\ divLog = {}
    /\ pc \in {"calib", "physics", "main"} => Len(Temperatures) > 0
    /\ HasResult => Len(Temperatures) > 0 /\ result.hoursTotal > 0

\* The archive has answered with an empty series.
C12_Witness ==
    /\ error = ErrNoData
    /\ pc = "idle"
    /\ resp \in Responses
    /\ Len(Temperatures) = 0

\* The date a is not before the date b.
NotBefore(a, b) ==
    \/ a.y > b.y
    \/ a.y = b.y /\ a.m > b.m
    \/ a.y = b.y /\ a.m = b.m /\ a.d >= b.d

C14_Idempotent ==
    last.seen =>
        /\ pc = "fetch" =>
              /\ ~HasResult /\ error = ""
              /\ resp = NoResponse /\ i = 1
              /\ sumDegreeHours = Zero /\ k_load = Zero
              /\ totals = InitialTotals /\ hour = NoHour
              /\ calIdx = {} /\ heatIdx = {} /\ divLog = {}
        /\ pc # "fetch" => resp = last.resp
        /\ pc = "idle" =>
              /\ error = ""
              /\ HasResult
              /\ result = last.result

\* The second call has ended, in consumption mode, on a series with a
\* heating hour, a null entry and a sample outside the heating period.
C14_Witness ==
    /\ last.seen
    /\ pc = "idle"
    /\ HasResult
    /\ cfg.calcMode = "consumption"
    /\ result.hoursHeating > 0
    /\ \E j \in 1..Len(Temperatures) : Temperatures[j] = Null
    /\ result.hoursHeating + 1 < result.hoursTotal

\* Both day inputs of the heating period are empty.
NoPeriodConfigured == cfg.heatStartD = NaN /\ cfg.heatEndD = NaN

\* The samples that are not null and below the indoor temperature.
BelowIndoor ==
    {j \in 1..Len(Temperatures) :
        Temperatures[j] # Null /\ RLt(Temperatures[j], cfg.tempInnen)}

\* C15: when no heating period is configured, checkInHeatingPeriod is true
\* for every sample, and at the end of the main loop the heating hours are
\* exactly the samples that are not null and below the indoor temperature.
C15_NoPeriodAllSamples ==
    NoPeriodConfigured =>
        /\ \A j \in 1..Len(Temperatures) : checkInHeatingPeriod(resp.time[j], cfg)
        /\ (pc = "main" /\ ~AtSample) => heatIdx = BelowIndoor

\* The main loop has passed the last sample of the series.
LoopDone == (pc = "main" /\ ~AtSample) \/ HasResult

\* The heating hours, each with its index j and the value v that f gives it.
Valued(f(_)) == {[j |-> j, v |-> f(j)] : j \in Qualifying}

\* The earliest element of P whose value is the greatest.
EarliestMax(P) ==
    CHOOSE x \in P :
        /\ \A y \in P : RLe(y.v, x.v)
        /\ \A y \in P : y.j < x.j => RLt(y.v, x.v)

\* The heat load of sample j.
QLoadAt(j) == RMul(k_load, RSub(cfg.tempInnen, Temperatures[j]))

\* C16: after the main loop maxHeatLoadW is the greatest
\* k_load * (indoor - outdoor) over the heating hours and maxHeatDate the
\* timestamp of the earliest heating hour with that load; with no heating
\* hour of positive load they are 0 and '-'.  The result carries both, the
\* timestamp with its 'T' replaced by a blank.
C16_MaxHeatLoad ==
    LoopDone =>
        LET q == Valued(QLoadAt)
        IN  /\ heatIdx = Qualifying
            /\ IF \A x \in q : ~RGt(x.v, Zero)
               THEN /\ totals.maxHeatLoadW = Zero
                    /\ totals.maxHeatDate = Dash
                    /\ HasResult => result.maxHeatDate = Dash
               ELSE LET m == EarliestMax(q)
                    IN  /\ totals.maxHeatLoadW = m.v
                        /\ totals.maxHeatDate = resp.time[m.j]
                        /\ HasResult =>
                              result.maxHeatDate = [resp.time[m.j] EXCEPT !.sep = " "]
            /\ HasResult => result.maxHeatLoadW = totals.maxHeatLoadW

\* The greatest heat load is reached by the second and by the third sample,
\* after a heating hour of smaller load.
C16_Witness ==
    /\ pc = "main"
    /\ Len(Temperatures) = 3
    /\ ~AtSample
    /\ Qualifying = {1, 2, 3}
    /\ RLt(QLoadAt(1), QLoadAt(2))
    /\ QLoadAt(2) = QLoadAt(3)
    /\ totals.maxHeatDate = resp.time[2]

\* The electrical power of sample j.
PElecAt(j) == HourLocals(Temperatures[j], cfg, k_load).pElec

\* C17 as stated: after a main loop with heating hours maxElecLoadW is the
\* greatest pElec over the heating hours, and maxElecDate and maxElecTemp
\* are the timestamp and the outdoor temperature of the earliest heating
\* hour with that power (stated here for a positive k_load only).
C17_AsStated ==
    (LoopDone /\ Qualifying # {} /\ RGt(k_load, Zero)) =>
        LET m == EarliestMax(Valued(PElecAt))
        IN  /\ totals.maxElecLoadW = m.v
            /\ totals.maxElecDate = resp.time[m.j]
            /\ totals.maxElecTemp = Temperatures[m.j]

\* C17 (amended): after the main loop, if some heating hour has pElec > 0,
\* maxElecLoadW is the greatest pElec over the heating hours and maxElecDate
\* and maxElecTemp are the timestamp and the outdoor temperature of one
\* sample, the earliest heating hour with that power; otherwise they are
\* 0, '-' and 0.
C17_MaxElecLoad ==
    LoopDone =>
        LET p == Valued(PElecAt)
        IN  /\ heatIdx = Qualifying
            /\ IF \A x \in p : ~RGt(x.v, Zero)
               THEN /\ totals.maxElecLoadW = Zero
                    /\ totals.maxElecDate = Dash
                    /\ totals.maxElecTemp = Zero
                    /\ HasResult => result.maxElecDate = Dash
               ELSE LET m == EarliestMax(p)
                    IN  /\ totals.maxElecLoadW = m.v
                        /\ totals.maxElecDate = resp.time[m.j]
                        /\ totals.maxElecTemp = Temperatures[m.j]
                        /\ HasResult =>
                              result.maxElecDate = [resp.time[m.j] EXCEPT !.sep = " "]
            /\ HasResult =>
                  /\ result.maxElecLoadW = totals.maxElecLoadW
                  /\ result.maxElecTemp = totals.maxElecTemp

\* A heating hour without electrical power is followed by two heating
\* hours of the same, greatest power.
C17_Witness ==
    /\ pc = "main"
    /\ Len(Temperatures) = 3
    /\ ~AtSample
    /\ Qualifying = {1, 2, 3}
    /\ PElecAt(1) = Zero
    /\ RGt(PElecAt(2), Zero)
    /\ PElecAt(2) = PElecAt(3)
    /\ totals.maxElecDate = resp.time[2]
    /\ totals.maxElecTemp = Temperatures[2]

\* The greater of two numbers.
RMax(a, b) == IF RGe(a, b) THEN a ELSE b

\* C18: in every heating hour copReal is the greater of 1 and
\* eff * copCarnot, so at least 1, and it is the divisor of the electrical
\* power of that hour.
C18_CopRealFloored ==
    hour.heating =>
        /\ hour.copReal = RMax(Whole(1), RMul(cfg.eff, hour.copCarnot))
        /\ RGe(hour.copReal, Whole(1))
        /\ hour.pElec # Zero => hour.pElec = RDiv(hour.qLoad, hour.copReal)

\* A heating hour whose eff * copCarnot is below 1.
C18_Witness ==
    /\ hour.heating
    /\ RLt(RMul(cfg.eff, hour.copCarnot), Whole(1))
    /\ hour.copReal = Whole(1)
    /\ hour.pElec = hour.qLoad

\* C19: in every heating hour pElec is 0 if copReal > 20000 and
\* qLoad / copReal otherwise, and an iteration of the main loop on a heating
\* hour adds qLoad to totalHeatWh, pElec to totalElecWh and 1 to heatHours
\* in both cases.
C19_PElecAndTotals ==
    /\ [](hour.heating =>
            hour.pElec = IF RGt(hour.copReal, Whole(20000)) THEN Zero
                         ELSE RDiv(hour.qLoad, hour.copReal))
    /\ [][(pc = "main" /\ AtSample /\ i \in Qualifying) =>
            /\ hour'.heating
            /\ hour'.tOut = Temperatures[i]
            /\ hour'.qLoad = QLoadAt(i)
            /\ totals'.totalHeatWh = RAdd(totals.totalHeatWh, hour'.qLoad)
            /\ totals'.totalElecWh = RAdd(totals.totalElecWh, hour'.pElec)
            /\ totals'.heatHours = totals.heatHours + 1]_vars

\* A heating hour with copReal > 20000 after one with a smaller copReal:
\* two heating hours and the heat of both, the electricity of one.
C19_Witness ==
    /\ hour.heating
    /\ RGt(hour.copReal, Whole(20000))
    /\ hour.pElec = Zero
    /\ totals.heatHours = 2
    /\ totals.totalElecWh # Zero
    /\ RGt(totals.totalHeatWh, hour.qLoad)

\* C20: k_load keeps its initial 0 until the step that enters the main
\* loop; that step, taken after the last sample of the calibration pass in
\* consumption mode, assigns it (uVal * area in physics mode, whatever the
\* series) before the first iteration; no step of the main loop, nor the
\* step that reports the result, writes it.
C20_KLoadResolvedOnce ==
    /\ [][pc = "main" => k_load' = k_load]_vars
    /\ [][(pc \in {"fetch", "calib", "physics"} /\ pc' # "main") =>
            k_load' = k_load]_vars
    /\ [][(pc # "main" /\ pc' = "main") =>
            /\ pc \in {"calib", "physics"}
            /\ pc = "calib" => (~AtSample /\ calIdx = Qualifying)
            /\ i' = 1
            /\ totals' = InitialTotals
            /\ heatIdx' = {}
            /\ k_load' =
                  IF cfg.calcMode = "physics" THEN RMul(cfg.uVal, cfg.area)
                  ELSE RDiv(RMul(TotalHeatDemandKWh(cfg), Whole(1000)), DegreeHours)]_vars
    /\ [](pc \in {"fetch", "calib", "physics"} => k_load = Zero)
    /\ []((pc = "main" /\ cfg.calcMode = "physics") =>
            k_load = RMul(cfg.uVal, cfg.area))

\* The main loop has passed three samples, two of them heating hours, with
\* the coefficient of the calibration pass.
C20_Witness ==
    /\ pc = "main"
    /\ cfg.calcMode = "consumption"
    /\ Len(Temperatures) = 3
    /\ ~AtSample
    /\ totals.heatHours = 2
    /\ k_load # Zero
    /\ k_load # RMul(cfg.uVal, cfg.area)

\* C21: a heating hour to which the Carnot sentinel applies (flowK <=
\* outdoorK, copCarnot = 99999) draws no electrical power, whatever the
\* efficiency factor in (0, 1].
C21_SentinelDrawsNothing ==
    (/\ hour.heating
     /\ RGt(k_load, Zero)
     /\ RLe(hour.tVorlaufK, hour.tOutK)
     /\ RGt(cfg.eff, Zero) /\ RLe(cfg.eff, Whole(1))) =>
        /\ hour.copCarnot = Whole(99999)
        /\ RGt(hour.copReal, Whole(20000))
        /\ hour.pElec = Zero

\* The calibrated demand of the form, computed from the inputs alone:
\* fuelAmount kWh for gas, 10 kWh per litre for oil, times the efficiency of
\* the old system.
CalibratedDemandKWh ==
    LET fuelEnergyKWh == IF cfg.fuelType = "gas"
                         THEN cfg.fuelAmount
                         ELSE RMul(Whole(10), cfg.fuelAmount)
    IN  RMul(fuelEnergyKWh, cfg.oldEff)

C23_ElecWithinHeat ==
    RGe(k_load, Zero) =>
        /\ hour.heating =>
               /\ RGe(hour.copReal, Whole(1))
               /\ RLe(Zero, hour.pElec) /\ RLe(hour.pElec, hour.qLoad)
        /\ RLe(Zero, totals.totalElecWh)
        /\ RLe(totals.totalElecWh, totals.totalHeatWh)
        /\ RLe(totals.maxElecLoadW, totals.maxHeatLoadW)
        /\ HasResult =>
               /\ RLe(Zero, result.elecKWh)
               /\ RLe(result.elecKWh, result.heatKWh)
               /\ RLe(result.maxElecLoadW, result.maxHeatLoadW)
               /\ result.jaz = Zero \/ RGe(result.jaz, Whole(1))

\* A prefix of the main loop with two heating hours: the latest one runs at
\* the COP floor and draws its whole heat load, the other drew less than its
\* load, so the electrical total lies strictly between 0 and the heat total.
C23_Witness ==
    /\ pc = "main"
    /\ RGt(k_load, Zero)
    /\ totals.heatHours = 2
    /\ hour.heating
    /\ hour.copReal = Whole(1)
    /\ hour.pElec = hour.qLoad
    /\ RLt(Zero, totals.totalElecWh)
    /\ RLt(totals.totalElecWh, totals.totalHeatWh)

\* What the form shows once a call of calculate is over: an error and no
\* result, or a result and no error.
ErrorOnly == error # "" /\ result = NullResult

ResultOnly == HasResult /\ error = ""

\* C24: every call of calculate, on every path (date range rejected, request
\* failed, no weather data, no degree-hours, success), ends with loading =
\* false and exactly one of the two outcomes, a non-empty error with no result
\* or a result with an empty error; while a call runs no result is shown, so
\* the result of an earlier call never stands next to a failure.
C24_OneOutcome ==
    /\ [][pc' = "idle" => (~loading' /\ (ErrorOnly' \/ ResultOnly'))]_vars
    /\ [](pc # "idle" => (loading /\ result = NullResult))
    /\ [](error # "" => result = NullResult)

\* A call that follows a call with a result and fails at the request: the
\* error stands alone.
C24_Witness ==
    /\ last.seen
    /\ last.result # NullResult
    /\ pc = "idle"
    /\ ~loading
    /\ error = ErrFetch
    /\ result = NullResult

\* C25: whenever the date validation enables the button (both dates parse,
\* both lie before today, start <= end), the click is not rejected by
\* calculate's own date-range check and goes on to the archive request; this
\* includes start = end.
C25_EnabledNotRejected ==
    [][(pc = "idle" /\ ButtonEnabled) =>
           (error' # ErrDateRange /\ pc' = "fetch")]_vars

====
